---- MODULE Spec2Model ----
(***************************************************************************)
(* Roche-potential solvers of Utils/Binary.py: Potential, Get_potential,   *)
(* Radius, Radii and Saddle.                                               *)
(*                                                                         *)
(* The C `double` (and numpy float64) of the source is modelled as binary  *)
(* floating point with the IEEE-754 behaviour the solvers rely on: signed  *)
(* zeros, infinities, NaN, gradual underflow, round-to-nearest-even after  *)
(* every operation, and comparisons that are false on NaN.  The exponent   *)
(* range is that of binary64; the significand is narrowed from 53 bits to  *)
(* MantBits bits so that every intermediate product fits TLC's integers.   *)
(* A finite value is (-1)^s * m * 2^e with 0 <= m < 2^MantBits.            *)
(***************************************************************************)
EXTENDS Integers, Sequences, FiniteSets, TLC

MantBits == 15
EMax == 1023
EMin == -1022

\* exponent of the least significant bit of the smallest binade
EMinLsb == EMin - (MantBits - 1)

Pow2(n) == 2 ^ n

Max(a, b) == IF a >= b THEN a ELSE b
AbsInt(n) == IF n < 0 THEN -n ELSE n

\* number of bits of a non-negative integer
RECURSIVE BitLen(_)
BitLen(n) == IF n = 0 THEN 0 ELSE 1 + BitLen(n \div 2)

----------------------------------------------------------------------------
(* Values *)

Fin(s, m, e) == [k |-> "fin", s |-> s, m |-> m, e |-> e]
Zero(s) == Fin(s, 0, 0)
Inf(s) == [k |-> "inf", s |-> s, m |-> 0, e |-> 0]
NaN == [k |-> "nan", s |-> 0, m |-> 0, e |-> 0]

IsNaN(a) == a.k = "nan"
IsInf(a) == a.k = "inf"
IsFin(a) == a.k = "fin"
IsZero(a) == a.k = "fin" /\ a.m = 0
Xor(s, t) == IF s = t THEN 0 ELSE 1

\* q, or q + 1 when the remainder rem (out of 2 * half) rounds up: to nearest,
\* ties to even; st: bits were already lost below rem
RoundUp(q, rem, half, st) ==
    IF rem > half \/ (rem = half /\ (st \/ q % 2 = 1)) THEN q + 1 ELSE q

\* n / 2^sh rounded to nearest, ties to even (n < 2^31, sh >= 1)
ShiftRightRNE(n, sh, st) ==
    IF sh > 31 THEN 0
    ELSE IF sh = 31 THEN RoundUp(0, n, Pow2(30), st)
    ELSE RoundUp(n \div Pow2(sh), n % Pow2(sh), Pow2(sh - 1), st)

\* m * 2^e with m already rounded: overflow to infinity
PackChecked(s, m, e) ==
    IF e + MantBits - 1 > EMax THEN Inf(s) ELSE Fin(s, m, e)

\* a rounded significand q <= 2^MantBits: renormalise after a carry
Pack(s, q, e) ==
    IF q = 0 THEN Zero(s)
    ELSE IF q = Pow2(MantBits) THEN PackChecked(s, Pow2(MantBits - 1), e + 1)
    ELSE PackChecked(s, q, e)

\* sh: how far n must move right to fit MantBits bits above EMinLsb
FRoundShift(s, n, e, st, len, sh) ==
    IF sh <= 0
    THEN (IF e + len - 1 > EMax THEN Inf(s) ELSE Fin(s, n * Pow2(-sh), e + sh))
    ELSE Pack(s, ShiftRightRNE(n, sh, st), e + sh)

FRoundLen(s, n, e, st, len) ==
    FRoundShift(s, n, e, st, len, Max(len - MantBits, EMinLsb - e))

\* the value (-1)^s * n * 2^e (n >= 0; plus a lost fraction when st) rounded
\* to the format: normalised, subnormal, or overflowed to infinity
FRound(s, n, e, st) ==
    IF n = 0 THEN Zero(s) ELSE FRoundLen(s, n, e, st, BitLen(n))

FromInt(n) == FRound(IF n < 0 THEN 1 ELSE 0, AbsInt(n), 0, FALSE)

FNeg(a) == IF IsNaN(a) THEN NaN ELSE [a EXCEPT !.s = 1 - a.s]
FAbs(a) == IF IsNaN(a) THEN NaN ELSE [a EXCEPT !.s = 0]

Signed(a) == IF a.s = 1 THEN -a.m ELSE a.m

\* an exact non-zero sum of two values cancels to +0
AddSigned(sum, e) ==
    IF sum = 0 THEN Zero(0)
    ELSE FRound(IF sum < 0 THEN 1 ELSE 0, AbsInt(sum), e, FALSE)

\* a + b of two finite non-zero values, a.e >= b.e; a b more than
\* MantBits + 1 binary places below a is rounded away
AddFinite(a, b) ==
    IF a.e - b.e > MantBits + 1 THEN a
    ELSE AddSigned(Signed(a) * Pow2(a.e - b.e) + Signed(b), b.e)

FAdd(a, b) ==
    IF IsNaN(a) \/ IsNaN(b) THEN NaN
    ELSE IF IsInf(a) THEN (IF IsInf(b) /\ b.s # a.s THEN NaN ELSE a)
    ELSE IF IsInf(b) THEN b
    ELSE IF IsZero(a) /\ IsZero(b) THEN Zero(IF a.s = 1 /\ b.s = 1 THEN 1 ELSE 0)
    ELSE IF IsZero(a) THEN b
    ELSE IF IsZero(b) THEN a
    ELSE IF a.e >= b.e THEN AddFinite(a, b) ELSE AddFinite(b, a)

FSub(a, b) == FAdd(a, FNeg(b))

FMul(a, b) ==
    IF IsNaN(a) \/ IsNaN(b) THEN NaN
    ELSE IF IsInf(a) \/ IsInf(b)
         THEN (IF IsZero(a) \/ IsZero(b) THEN NaN ELSE Inf(Xor(a.s, b.s)))
    ELSE FRound(Xor(a.s, b.s), a.m * b.m, a.e + b.e, FALSE)

\* the quotient of the significands with the dividend moved up to 31 bits
DivFinite(s, num, den, e) == FRound(s, num \div den, e, num % den # 0)

DivScaled(a, b, up) ==
    DivFinite(Xor(a.s, b.s), a.m * Pow2(up), b.m, a.e - up - b.e)

FDiv(a, b) ==
    IF IsNaN(a) \/ IsNaN(b) THEN NaN
    ELSE IF IsInf(a) THEN (IF IsInf(b) THEN NaN ELSE Inf(Xor(a.s, b.s)))
    ELSE IF IsInf(b) THEN Zero(Xor(a.s, b.s))
    ELSE IF IsZero(b) THEN (IF IsZero(a) THEN NaN ELSE Inf(Xor(a.s, b.s)))
    ELSE IF IsZero(a) THEN Zero(Xor(a.s, b.s))
    ELSE DivScaled(a, b, 31 - BitLen(a.m))

\* integer square root of n < 2^30, one result bit per step
RECURSIVE IsqrtIter(_, _, _)
IsqrtIter(n, s, bit) ==
    IF bit = 0 THEN s
    ELSE IF (s + bit) * (s + bit) <= n THEN IsqrtIter(n, s + bit, bit \div 2)
    ELSE IsqrtIter(n, s, bit \div 2)

Isqrt(n) == IsqrtIter(n, 0, Pow2(MantBits - 1))

\* s = Isqrt(n): the root lies in [s, s + 1) and is above s + 1/2 exactly
\* when n - s^2 > s
SqrtRoot(n, s, e) == FRound(0, IF n - s * s > s THEN s + 1 ELSE s, e, FALSE)

\* the significand moved up by an amount `up` that leaves an even exponent
SqrtScaled(a, up) == SqrtRoot(a.m * Pow2(up), Isqrt(a.m * Pow2(up)), (a.e - up) \div 2)

SqrtFinite(a, top) ==
    SqrtScaled(a, IF (a.e - top) % 2 = 0 THEN top ELSE top - 1)

FSqrt(a) ==
    IF IsNaN(a) THEN NaN
    ELSE IF IsZero(a) THEN a
    ELSE IF a.s = 1 THEN NaN
    ELSE IF IsInf(a) THEN a
    ELSE SqrtFinite(a, 2 * MantBits - BitLen(a.m))

\* a < b and a > b as C compares doubles: false when either is NaN
FLt(a, b) ==
    IF IsNaN(a) \/ IsNaN(b) THEN FALSE
    ELSE IF a = b \/ (IsZero(a) /\ IsZero(b)) THEN FALSE
    ELSE FSub(a, b).s = 1

FGt(a, b) == FLt(b, a)
FLe(a, b) == ~IsNaN(a) /\ ~IsNaN(b) /\ ~FLt(b, a)

\* a decimal literal n/d of the source, correctly rounded
FromRat(n, d) == FDiv(FromInt(n), FromInt(d))

One == FromInt(1)
Two == FromInt(2)
Three == FromInt(3)

----------------------------------------------------------------------------
(* Radius: the scalar Newton solver *)

nmax == 50
Sentinel == FNeg(FromRat(9999, 100))
Tolerance == FromRat(1, 100000)
Half == FromRat(1, 2)

\* the doubles a solver declares without a value (x, y, z, ..., dr); every
\* pass writes each of them before it reads it
Scratch ==
    [x |-> NaN, y |-> NaN, z |-> NaN, rc2 |-> NaN, rc |-> NaN, rx |-> NaN,
     rx3 |-> NaN, psi |-> NaN, dpsi |-> NaN, dpsidx |-> NaN, dpsidy |-> NaN,
     dpsidz |-> NaN, dpsidr |-> NaN, dr |-> NaN]

\* one statement of the loop body each: L holds the locals, a the arguments
Radius_x(L, r, a) == [L EXCEPT !.x = FMul(r, a.cosx)]
Radius_y(L, r, a) == [L EXCEPT !.y = FMul(r, a.cosy)]
Radius_z(L, r, a) == [L EXCEPT !.z = FMul(r, a.cosz)]
Radius_rc2(L) ==
    [L EXCEPT !.rc2 = FAdd(FAdd(FMul(L.x, L.x), FMul(L.y, L.y)), FMul(L.z, L.z))]
Radius_rc(L) == [L EXCEPT !.rc = FSqrt(L.rc2)]
Radius_rx(L) ==
    [L EXCEPT !.rx = FSqrt(FSub(FAdd(L.rc2, One), FMul(Two, L.x)))]
Radius_rx3(L) == [L EXCEPT !.rx3 = FMul(FMul(L.rx, L.rx), L.rx)]
Radius_psi(L, a) ==
    [L EXCEPT !.psi =
        FAdd(FSub(FAdd(FDiv(One, L.rc), FDiv(a.q, L.rx)), FMul(a.q, L.x)),
             FMul(a.qp1by2om2, FSub(L.rc2, FMul(L.z, L.z))))]
Radius_dpsi(L, a) ==
    [L EXCEPT !.dpsi =
        FSub(FDiv(FNeg(One), FMul(FMul(L.rc, L.rc), L.rc)), FDiv(a.q, L.rx3))]
Radius_dpsidx(L, a) ==
    [L EXCEPT !.dpsidx =
        FAdd(FMul(L.x, FAdd(L.dpsi, FMul(Two, a.qp1by2om2))),
             FMul(a.q, FSub(FDiv(One, L.rx3), One)))]
Radius_dpsidy(L, a) ==
    [L EXCEPT !.dpsidy = FMul(L.y, FAdd(L.dpsi, FMul(Two, a.qp1by2om2)))]
Radius_dpsidz(L) == [L EXCEPT !.dpsidz = FMul(L.z, L.dpsi)]
Radius_dpsidr(L, a) ==
    [L EXCEPT !.dpsidr =
        FAdd(FAdd(FMul(L.dpsidx, a.cosx), FMul(L.dpsidy, a.cosy)),
             FMul(L.dpsidz, a.cosz))]
Radius_dr(L, a) == [L EXCEPT !.dr = FDiv(FSub(L.psi, a.psi0), L.dpsidr)]

\* the potential at r along the ray and the Newton step, statement by statement
RadiusEval(L, r, a) ==
    Radius_dr(Radius_dpsidr(Radius_dpsidz(Radius_dpsidy(Radius_dpsidx(
        Radius_dpsi(Radius_psi(Radius_rx3(Radius_rx(Radius_rc(Radius_rc2(
            Radius_z(Radius_y(Radius_x(L, r, a), r, a), r, a))))), a), a),
        a), a)), a), a)

\* faulty variants, which the properties below must tell from the code: a
\* step without the positivity guard, a cap that comes one pass late
RadiusUpdateUnguarded(r, dr) == FSub(r, dr)
RadiusCappedLate(i) == i > nmax + 1

\* the positivity guard and the update of r
RadiusUpdate(r, dr) ==
    IF FLt(FSub(r, dr), Zero(0)) THEN FMul(Half, r) ELSE FSub(r, dr)

\* the loop test of the do-while
RadiusContinue(dr) == FGt(FAbs(dr), Tolerance)

\* the iteration cap
RadiusCapped(i) == i > nmax

----------------------------------------------------------------------------
(* Radii: the batch solver, one lane per direction *)

\* one statement of the lane's loop body each: L holds the thread's private
\* locals, ro the shared array rout, i the lane, b the shared arguments
Radii_x(L, ro, i, b) == [L EXCEPT !.x = FMul(ro[i], b.cosx[i])]
Radii_y(L, ro, i, b) == [L EXCEPT !.y = FMul(ro[i], b.cosy[i])]
Radii_z(L, ro, i, b) == [L EXCEPT !.z = FMul(ro[i], b.cosz[i])]
Radii_rc2(L) ==
    [L EXCEPT !.rc2 = FAdd(FAdd(FMul(L.x, L.x), FMul(L.y, L.y)), FMul(L.z, L.z))]
Radii_rc(L) == [L EXCEPT !.rc = FSqrt(L.rc2)]
Radii_rx(L) ==
    [L EXCEPT !.rx = FSqrt(FSub(FAdd(L.rc2, One), FMul(Two, L.x)))]
Radii_rx3(L) == [L EXCEPT !.rx3 = FMul(FMul(L.rx, L.rx), L.rx)]
Radii_psi(L, b) ==
    [L EXCEPT !.psi =
        FAdd(FSub(FAdd(FDiv(One, L.rc), FDiv(b.q, L.rx)), FMul(b.q, L.x)),
             FMul(b.qp1by2om2, FSub(L.rc2, FMul(L.z, L.z))))]
Radii_dpsi(L, b) ==
    [L EXCEPT !.dpsi =
        FSub(FDiv(FNeg(One), FMul(FMul(L.rc, L.rc), L.rc)), FDiv(b.q, L.rx3))]
Radii_dpsidx(L, b) ==
    [L EXCEPT !.dpsidx =
        FAdd(FMul(L.x, FAdd(L.dpsi, FMul(Two, b.qp1by2om2))),
             FMul(b.q, FSub(FDiv(One, L.rx3), One)))]
Radii_dpsidy(L, b) ==
    [L EXCEPT !.dpsidy = FMul(L.y, FAdd(L.dpsi, FMul(Two, b.qp1by2om2)))]
Radii_dpsidz(L) == [L EXCEPT !.dpsidz = FMul(L.z, L.dpsi)]
Radii_dpsidr(L, i, b) ==
    [L EXCEPT !.dpsidr =
        FAdd(FAdd(FMul(L.dpsidx, b.cosx[i]), FMul(L.dpsidy, b.cosy[i])),
             FMul(L.dpsidz, b.cosz[i]))]
Radii_dr(L, b) == [L EXCEPT !.dr = FDiv(FSub(L.psi, b.psi0), L.dpsidr)]

RadiiEval(L, ro, i, b) ==
    Radii_dr(Radii_dpsidr(Radii_dpsidz(Radii_dpsidy(Radii_dpsidx(
        Radii_dpsi(Radii_psi(Radii_rx3(Radii_rx(Radii_rc(Radii_rc2(
            Radii_z(Radii_y(Radii_x(L, ro, i, b), ro, i, b), ro, i, b))))),
        b), b), b), b)), i, b), b)

\* faulty variants, which the properties below must tell from the code: a
\* counter that is not reset, a lane started from its neighbour's slot, a
\* capped lane that overwrites the whole array
RadiiCounterKept(c) == c
RadiiStartFromPrevious(ro, i, b) == IF i = 1 THEN b.r ELSE ro[i - 1]
RadiiCapPoison(ro, i) == [j \in DOMAIN ro |-> Sentinel]

\* the value a lane's counter ii takes at the start of the lane (c: what the
\* thread's ii held before)
RadiiCounterStart(c) == 0

\* the value a lane's slot takes at the start of the lane: rout(i) = r
RadiiStartValue(ro, i, b) == b.r

\* the positivity guard and the update of rout(i)
RadiiUpdate(ro, i, dr) ==
    IF FLt(FSub(ro[i], dr), Zero(0))
    THEN [ro EXCEPT ![i] = FMul(Half, ro[i])]
    ELSE [ro EXCEPT ![i] = FSub(ro[i], dr)]

\* the lane's loop test
RadiiContinue(dr) == FGt(FAbs(dr), Tolerance)

\* the lane's iteration cap and what a capped lane stores
RadiiCapped(c) == c > nmax
RadiiCapWrite(ro, i) == [ro EXCEPT ![i] = Sentinel]

----------------------------------------------------------------------------
(* Potential and Get_potential: the potential and its gradient at a point *)

\* a**2 and a**3
Square(a) == FMul(a, a)
Cube(a) == FMul(FMul(a, a), a)

\* the names a call binds, before their statements run
PotentialScratch ==
    [qp1by2om2 |-> NaN, rc2 |-> NaN, rx |-> NaN, rc |-> NaN, psi |-> NaN,
     dpsi |-> NaN, dpsidx |-> NaN, dpsidy |-> NaN, dpsidz |-> NaN]

\* Potential, one statement each: P holds the names bound so far
Potential_qp1by2om2(P, qp1by2om2) == [P EXCEPT !.qp1by2om2 = qp1by2om2]
Potential_rc2(P, x, y, z) ==
    [P EXCEPT !.rc2 = FAdd(FAdd(Square(x), Square(y)), Square(z))]
Potential_rx(P, x) ==
    [P EXCEPT !.rx = FSqrt(FSub(FAdd(P.rc2, One), FMul(Two, x)))]
Potential_rc(P) == [P EXCEPT !.rc = FSqrt(P.rc2)]
Potential_psi(P, x, z, q) ==
    [P EXCEPT !.psi =
        FAdd(FSub(FAdd(FDiv(One, P.rc), FDiv(q, P.rx)), FMul(q, x)),
             FMul(P.qp1by2om2, FSub(P.rc2, Square(z))))]
Potential_dpsi(P, q) ==
    [P EXCEPT !.dpsi = FSub(FDiv(FNeg(One), Cube(P.rc)), FDiv(q, Cube(P.rx)))]
Potential_dpsidx(P, x, q) ==
    [P EXCEPT !.dpsidx =
        FAdd(FMul(x, FAdd(P.dpsi, FMul(Two, P.qp1by2om2))),
             FMul(q, FAdd(FNeg(One), FDiv(One, Cube(P.rx)))))]
Potential_dpsidy(P, y) ==
    [P EXCEPT !.dpsidy = FMul(y, FAdd(P.dpsi, FMul(Two, P.qp1by2om2)))]
Potential_dpsidz(P, z) == [P EXCEPT !.dpsidz = FMul(z, P.dpsi)]
Potential_return(P) ==
    <<P.rc, P.rx, P.dpsi, P.dpsidx, P.dpsidy, P.dpsidz, P.psi>>

Potential(x, y, z, q, qp1by2om2) ==
    Potential_return(Potential_dpsidz(Potential_dpsidy(Potential_dpsidx(
        Potential_dpsi(Potential_psi(Potential_rc(Potential_rx(Potential_rc2(
            Potential_qp1by2om2(PotentialScratch, qp1by2om2), x, y, z), x)),
        x, z, q), q), x, q), y), z))

\* Get_potential, one statement each
Get_potential_qp1by2om2(P, q, omega) ==
    [P EXCEPT !.qp1by2om2 = FMul(FDiv(FAdd(q, One), Two), Square(omega))]
Get_potential_rc2(P, x, y, z) ==
    [P EXCEPT !.rc2 = FAdd(FAdd(Square(x), Square(y)), Square(z))]
Get_potential_rx(P, x) ==
    [P EXCEPT !.rx = FSqrt(FSub(FAdd(P.rc2, One), FMul(Two, x)))]
Get_potential_rc(P) == [P EXCEPT !.rc = FSqrt(P.rc2)]
Get_potential_psi(P, x, z, q) ==
    [P EXCEPT !.psi =
        FAdd(FSub(FAdd(FDiv(One, P.rc), FDiv(q, P.rx)), FMul(q, x)),
             FMul(P.qp1by2om2, FSub(P.rc2, Square(z))))]
Get_potential_dpsi(P, q) ==
    [P EXCEPT !.dpsi = FSub(FDiv(FNeg(One), Cube(P.rc)), FDiv(q, Cube(P.rx)))]
Get_potential_dpsidx(P, x, q) ==
    [P EXCEPT !.dpsidx =
        FAdd(FMul(x, FAdd(P.dpsi, FMul(Two, P.qp1by2om2))),
             FMul(q, FAdd(FNeg(One), FDiv(One, Cube(P.rx)))))]
Get_potential_dpsidy(P, y) ==
    [P EXCEPT !.dpsidy = FMul(y, FAdd(P.dpsi, FMul(Two, P.qp1by2om2)))]
Get_potential_dpsidz(P, z) == [P EXCEPT !.dpsidz = FMul(z, P.dpsi)]
Get_potential_return(P) ==
    <<P.rc, P.rx, P.dpsi, P.dpsidx, P.dpsidy, P.dpsidz, P.psi>>

Get_potential(x, y, z, q, omega) ==
    Get_potential_return(Get_potential_dpsidz(Get_potential_dpsidy(
        Get_potential_dpsidx(Get_potential_dpsi(Get_potential_psi(
            Get_potential_rc(Get_potential_rx(Get_potential_rc2(
                Get_potential_qp1by2om2(PotentialScratch, q, omega), x, y, z), x)),
        x, z, q), q), x, q), y), z))

\* the coefficient as Potential's docstring defines it: (q+1) / (2 * omega^2)
Documented_qp1by2om2(q, omega) ==
    FDiv(FAdd(q, One), FMul(Two, Square(omega)))

----------------------------------------------------------------------------
(* Saddle: Newton's iteration for the stationary point on the x axis *)

SaddleScratch ==
    [rc |-> NaN, rx |-> NaN, rx3 |-> NaN, dpsi |-> NaN, dpsidx |-> NaN,
     d2psidx2 |-> NaN, dx |-> NaN]

Pow5(a) == FMul(FMul(FMul(FMul(a, a), a), a), a)

\* one statement of the loop body each: L holds the locals, a the arguments
Saddle_rc(L, x) == [L EXCEPT !.rc = FAbs(x)]
Saddle_rx(L, x) ==
    [L EXCEPT !.rx = FSqrt(FSub(FAdd(FMul(L.rc, L.rc), One), FMul(Two, x)))]
Saddle_rx3(L) == [L EXCEPT !.rx3 = FMul(FMul(L.rx, L.rx), L.rx)]
Saddle_dpsi(L, a) ==
    [L EXCEPT !.dpsi =
        FSub(FDiv(FNeg(One), FMul(FMul(L.rc, L.rc), L.rc)), FDiv(a.q, L.rx3))]
Saddle_dpsidx(L, x, a) ==
    [L EXCEPT !.dpsidx =
        FAdd(FMul(x, FAdd(L.dpsi, FMul(Two, a.qp1by2om2))),
             FMul(a.q, FSub(FDiv(One, L.rx3), One)))]
Saddle_d2psidx2(L, x, a) ==
    [L EXCEPT !.d2psidx2 =
        FAdd(FAdd(L.dpsi,
                  FMul(Three,
                       FAdd(FDiv(FMul(x, x), Pow5(L.rc)),
                            FDiv(FMul(FMul(a.q, FSub(x, One)), FSub(x, One)),
                                 Pow5(L.rx))))),
             FMul(Two, a.qp1by2om2))]
Saddle_dx(L) == [L EXCEPT !.dx = FDiv(FNeg(L.dpsidx), L.d2psidx2)]

SaddleEval(L, x, a) ==
    Saddle_dx(Saddle_d2psidx2(Saddle_dpsidx(Saddle_dpsi(Saddle_rx3(
        Saddle_rx(Saddle_rc(L, x), x)), a), x, a), x, a))

\* x = x + dx
SaddleUpdate(x, dx) == FAdd(x, dx)

\* faulty variants, which the properties below must tell from the code: a
\* looser tolerance, a cap like that of Radius
SaddleContinueLoose(dx, x, c) == FGt(FAbs(FDiv(dx, x)), FromRat(1, 100))
SaddleContinueCapped(dx, x, c) ==
    FGt(FAbs(FDiv(dx, x)), Tolerance) /\ c <= nmax

\* the loop test of the do-while, after c passes; the code has no test on c
SaddleContinue(dx, x, c) == FGt(FAbs(FDiv(dx, x)), Tolerance)

\* the axial first derivative at the point (x, 0, 0)
SaddleDerivative(x, a) == SaddleEval(SaddleScratch, x, a).dpsidx

----------------------------------------------------------------------------
(* State *)

VARIABLES
    arg,         \* Radius: the call's arguments (cosx, cosy, cosz, psi0, r, q, qp1by2om2)
    r,           \* Radius: the iterate
    i,           \* Radius: the iteration counter
    loc,         \* Radius: the locals x, y, z, ..., dr
    pc,          \* Radius: "idle" outside a call, "loop" before a pass, "done" after the loop
    return_val,  \* Radius: the value handed back to the caller
    evals,       \* Radius: number of potential evaluations made so far
    small,       \* Radius: number of steps so far with |dr| <= Tolerance
    zeroEval,    \* Radius: TRUE once the potential has been evaluated at r = 0
    batch,       \* Radii: the call's arguments (arrays cosx, cosy, cosz; psi0, r, q, qp1by2om2)
    hpc,         \* caller: "ref" scalar solves, "seq" / "par" inside Radii, "between", "end"
    ref,         \* caller: what Radius returned for each direction so far
    refn,        \* caller: the counter i Radius ended with, per direction
    team,        \* Radii: number of threads of the parallel region
    sched,       \* Radii: the thread each lane is handed to
    rout,        \* Radii: the shared output array
    rseq,        \* caller: the array the build without OpenMP returned
    seqn,        \* caller: the counters ii of that build's lanes
    lane,        \* Radii: per thread, the loop variable i (0 before its first lane)
    ii,          \* Radii: per thread, the private counter ii
    tloc,        \* Radii: per thread, the private locals x, y, z, ..., dr
    tpc,         \* Radii: per thread, "for" / "do" / "end"
    capped,      \* Radii: lanes that ran into the cap in this call
    finished,    \* Radii: lanes whose do-while has exited in this call
    npass,       \* Radii: per lane, the counter ii its do-while exited with
    pin,         \* potential: the point and parameters (x, y, z, q, omega)
    pget,        \* potential: what Get_potential returned, <<>> before the call
    ppot,        \* potential: what Potential returned, <<>> before the call
    sarg,        \* Saddle: the call's arguments (x, q, qp1by2om2)
    sx,          \* Saddle: the iterate x
    sloc,        \* Saddle: the locals rc, rx, ..., dx
    spc,         \* Saddle: "idle", "loop" before a pass, "done" after the loop
    scount       \* Saddle: passes made so far, counted up to MaxCount

radiusVars == <<arg, r, i, loc, pc, return_val, evals, small, zeroEval>>
callerVars == <<batch, hpc, ref, refn, rseq, seqn>>
radiiVars == <<team, sched, rout, lane, ii, tloc, tpc, capped, finished, npass>>
potentialVars == <<pin, pget, ppot>>
saddleVars == <<sarg, sx, sloc, spc, scount>>
vars == <<radiusVars, callerVars, radiiVars, potentialVars, saddleVars>>

\* number of worker threads and longest direction array
NThreads == 2
MaxLanes == 2
Threads == 1 .. NThreads

\* directions: unit vectors along and between the axes
Directions ==
    { <<FromInt(-1), Zero(0), Zero(0)>>, <<One, Zero(0), Zero(0)>>,
      <<Zero(0), One, Zero(0)>>, <<Zero(0), Zero(0), One>>,
      <<FromRat(3, 5), FromRat(4, 5), Zero(0)>>,
      <<Zero(0), FromRat(3, 5), FromRat(4, 5)>> }

\* (q, qp1by2om2) for omega = 1
MassRatios == { <<FromInt(8), FromRat(9, 2)>>, <<FromInt(56), FromRat(57, 2)>>,
                <<One, One>> }

\* 2^k, beyond the integers FromInt takes
TwoTo(k) == Fin(0, Pow2(MantBits - 1), k - (MantBits - 1))

Targets == { FromRat(7, 2), FromInt(20), FromInt(100), FromInt(-100), TwoTo(40) }

StartRadii == { One, FromRat(14, 100), FromRat(1, 4), TwoTo(20) }

\* every combination whose starting point is not the companion's centre
\* (1, 0, 0), where the potential is singular
AllRadiusArgs ==
    { [cosx |-> d[1], cosy |-> d[2], cosz |-> d[3], psi0 |-> p, r |-> r0,
       q |-> m[1], qp1by2om2 |-> m[2]] :
      d \in Directions, p \in Targets, r0 \in StartRadii, m \in MassRatios }
RadiusArgs == { a \in AllRadiusArgs : ~(a.cosx = One /\ a.r = One) }

\* the state of Radii and of its caller while neither is running
NoBatch ==
    [cosx |-> <<>>, cosy |-> <<>>, cosz |-> <<>>, psi0 |-> NaN, r |-> NaN,
     q |-> NaN, qp1by2om2 |-> NaN]
RadiiIdle ==
    /\ team = 0
    /\ sched = <<>>
    /\ rout = <<>>
    /\ lane = [t \in Threads |-> 0]
    /\ ii = [t \in Threads |-> 0]
    /\ tloc = [t \in Threads |-> Scratch]
    /\ tpc = [t \in Threads |-> "end"]
    /\ capped = {}
    /\ finished = {}
    /\ npass = <<>>
NoArg ==
    [cosx |-> NaN, cosy |-> NaN, cosz |-> NaN, psi0 |-> NaN, r |-> NaN,
     q |-> NaN, qp1by2om2 |-> NaN]
RadiusIdle ==
    /\ arg = NoArg
    /\ r = NaN
    /\ i = 0
    /\ loc = Scratch
    /\ pc = "idle"
    /\ return_val = NaN
    /\ evals = 0
    /\ small = 0
    /\ zeroEval = FALSE
NoPoint == [x |-> NaN, y |-> NaN, z |-> NaN, q |-> NaN, omega |-> NaN]
PotentialIdle ==
    /\ pin = NoPoint
    /\ pget = <<>>
    /\ ppot = <<>>
NoSaddleArg == [x |-> NaN, q |-> NaN, qp1by2om2 |-> NaN]
SaddleIdle ==
    /\ sarg = NoSaddleArg
    /\ sx = NaN
    /\ sloc = SaddleScratch
    /\ spc = "idle"
    /\ scount = 0
CallerIdle ==
    /\ batch = NoBatch
    /\ hpc = "off"
    /\ ref = <<>>
    /\ refn = <<>>
    /\ rseq = <<>>
    /\ seqn = <<>>

----------------------------------------------------------------------------
(* Radius as a state machine: one action per pass of the do-while *)

\* entry into the C code: i = 0, the locals declared without a value
RadiusEnter(a) ==
    /\ arg' = a
    /\ r' = a.r
    /\ i' = 0
    /\ loc' = Scratch
    /\ pc' = "loop"
    /\ return_val' = NaN  \* not yet set
    /\ evals' = 0
    /\ small' = 0
    /\ zeroEval' = FALSE

RadiusInit ==
    /\ arg \in RadiusArgs
    /\ r = arg.r
    /\ i = 0
    /\ loc = Scratch
    /\ pc = "loop"
    /\ return_val = NaN  \* not yet set
    /\ evals = 0
    /\ small = 0
    /\ zeroEval = FALSE

\* a pass that finds the counter over the cap: r = -99.99; break
RadiusCap ==
    /\ pc = "loop"
    /\ RadiusCapped(i + 1)
    /\ i' = i + 1
    /\ r' = Sentinel
    /\ return_val' = Sentinel
    /\ pc' = "done"
    /\ UNCHANGED <<arg, loc, evals, small, zeroEval>>
    /\ UNCHANGED <<callerVars, radiiVars, potentialVars, saddleVars>>

\* a pass that evaluates the potential, steps r and tests the step
RadiusStep ==
    /\ pc = "loop"
    /\ ~RadiusCapped(i + 1)
    /\ i' = i + 1
    /\ loc' = RadiusEval(loc, r, arg)
    /\ r' = RadiusUpdate(r, loc'.dr)
    /\ evals' = evals + 1
    /\ small' = IF FLe(FAbs(loc'.dr), Tolerance) THEN small + 1 ELSE small
    /\ zeroEval' = (zeroEval \/ IsZero(r))
    /\ IF RadiusContinue(loc'.dr)
       THEN pc' = "loop" /\ return_val' = return_val
       ELSE pc' = "done" /\ return_val' = r'
    /\ UNCHANGED arg
    /\ UNCHANGED <<callerVars, radiiVars, potentialVars, saddleVars>>

RadiusNext == RadiusCap \/ RadiusStep

Init == RadiusInit /\ CallerIdle /\ RadiiIdle /\ PotentialIdle /\ SaddleIdle
Next == RadiusNext
Spec == Init /\ [][Next]_vars

----------------------------------------------------------------------------
(* Radii as a state machine: a team of threads sharing the lanes of the
   for loop, one action per pass of a lane's do-while; its caller first
   solves every direction with Radius, then calls Radii as built without
   OpenMP and as built with it *)

\* the directions a batch is made of, and the batches
BatchDirections ==
    { <<FromInt(-1), Zero(0), Zero(0)>>, <<Zero(0), One, Zero(0)>>,
      <<Zero(0), Zero(0), One>> }
BatchTargets == { FromRat(7, 2), FromInt(20) }
\* arrays of pairwise distinct directions
DirectionArrays ==
    UNION { { d \in [1 .. m -> BatchDirections] :
                \A j, k \in 1 .. m : d[j] = d[k] => j = k } : m \in 1 .. MaxLanes }
Batches ==
    { [cosx |-> [j \in DOMAIN d |-> d[j][1]], cosy |-> [j \in DOMAIN d |-> d[j][2]],
       cosz |-> [j \in DOMAIN d |-> d[j][3]], psi0 |-> p, r |-> One,
       q |-> FromInt(8), qp1by2om2 |-> FromRat(9, 2)] :
      d \in DirectionArrays, p \in BatchTargets }

n == Len(batch.cosx)
Lanes == 1 .. n

\* what numpy.empty may hand out: any old contents
Garbage == { NaN, One }

\* the arguments of the scalar solve of direction j
LaneArg(b, j) ==
    [cosx |-> b.cosx[j], cosy |-> b.cosy[j], cosz |-> b.cosz[j],
     psi0 |-> b.psi0, r |-> b.r, q |-> b.q, qp1by2om2 |-> b.qp1by2om2]

RadiiInit ==
    /\ batch \in Batches
    /\ hpc = "ref"
    /\ ref = <<>>
    /\ refn = <<>>
    /\ rseq = <<>>
    /\ seqn = <<>>
    /\ RadiusIdle
    /\ RadiiIdle
    /\ PotentialIdle
    /\ SaddleIdle

\* the caller solves the next direction with Radius
RefCall ==
    /\ hpc = "ref"
    /\ pc = "idle"
    /\ Len(ref) < n
    /\ RadiusEnter(LaneArg(batch, Len(ref) + 1))
    /\ UNCHANGED <<callerVars, radiiVars, potentialVars, saddleVars>>

\* Radius returns r to the caller
RefReturn ==
    /\ hpc = "ref"
    /\ pc = "done"
    /\ ref' = Append(ref, return_val)
    /\ refn' = Append(refn, i)
    /\ pc' = "idle"
    /\ UNCHANGED <<arg, r, i, loc, return_val, evals, small, zeroEval>>
    /\ UNCHANGED <<batch, hpc, rseq, seqn>>
    /\ UNCHANGED <<radiiVars, potentialVars, saddleVars>>

\* the ways the for loop's lanes may be shared out among tm threads; the
\* threads are interchangeable, so thread t + 1 is given a lane only after
\* thread t has an earlier one
Schedules(tm) ==
    { s \in [Lanes -> 1 .. tm] :
        \A j \in Lanes : \A t \in 1 .. (s[j] - 1) : \E k \in 1 .. (j - 1) : s[k] = t }

\* entry into Radii with a team of tm threads: rout = numpy.empty(n), the
\* lanes handed out by the schedule, every thread before its first lane
RadiiEnter(tm) ==
    /\ team' = tm
    /\ sched' \in Schedules(tm)
    /\ \E g \in Garbage : rout' = [j \in Lanes |-> g]
    /\ lane' = [t \in Threads |-> 0]
    /\ ii' = [t \in Threads |-> 0]
    /\ tloc' = [t \in Threads |-> Scratch]
    /\ tpc' = [t \in Threads |-> IF t <= tm THEN "for" ELSE "end"]
    /\ capped' = {}
    /\ finished' = {}
    /\ npass' = [j \in Lanes |-> 0]

\* the build without -fopenmp: the pragmas are ignored, one thread
RadiiCallSequential ==
    /\ hpc = "ref"
    /\ pc = "idle"
    /\ Len(ref) = n
    /\ hpc' = "seq"
    /\ RadiiEnter(1)
    /\ UNCHANGED <<batch, ref, refn, rseq, seqn>>
    /\ UNCHANGED <<radiusVars, potentialVars, saddleVars>>

\* the build with -fopenmp
RadiiCallParallel ==
    /\ hpc = "between"
    /\ hpc' = "par"
    /\ RadiiEnter(NThreads)
    /\ UNCHANGED <<batch, ref, refn, rseq, seqn>>
    /\ UNCHANGED <<radiusVars, potentialVars, saddleVars>>

\* the lanes of thread t still to come
Pending(t) == { j \in Lanes : sched[j] = t /\ j > lane[t] }
FirstOf(S) == CHOOSE j \in S : \A k \in S : j <= k

\* thread t takes its next lane: ii = 0; rout(i) = r -- or leaves the loop
RadiiFor(t) ==
    /\ hpc \in {"seq", "par"}
    /\ tpc[t] = "for"
    /\ IF Pending(t) = {}
       THEN /\ tpc' = [tpc EXCEPT ![t] = "end"]
            /\ UNCHANGED <<lane, ii, rout>>
       ELSE /\ lane' = [lane EXCEPT ![t] = FirstOf(Pending(t))]
            /\ ii' = [ii EXCEPT ![t] = RadiiCounterStart(ii[t])]
            /\ rout' = [rout EXCEPT ![lane'[t]] = RadiiStartValue(rout, lane'[t], batch)]
            /\ tpc' = [tpc EXCEPT ![t] = "do"]
    /\ UNCHANGED <<team, sched, tloc, capped, finished, npass>>
    /\ UNCHANGED <<radiusVars, callerVars, potentialVars, saddleVars>>

\* a pass of thread t's lane that finds ii over the cap: rout(i) = -99.99; break
RadiiCap(t) ==
    /\ hpc \in {"seq", "par"}
    /\ tpc[t] = "do"
    /\ RadiiCapped(ii[t] + 1)
    /\ ii' = [ii EXCEPT ![t] = ii[t] + 1]
    /\ rout' = RadiiCapWrite(rout, lane[t])
    /\ tpc' = [tpc EXCEPT ![t] = "for"]
    /\ capped' = capped \cup {lane[t]}
    /\ finished' = finished \cup {lane[t]}
    /\ npass' = [npass EXCEPT ![lane[t]] = ii'[t]]
    /\ UNCHANGED <<team, sched, lane, tloc>>
    /\ UNCHANGED <<radiusVars, callerVars, potentialVars, saddleVars>>

\* a pass of thread t's lane that evaluates the potential, steps rout(i) and
\* tests the step
RadiiStep(t) ==
    /\ hpc \in {"seq", "par"}
    /\ tpc[t] = "do"
    /\ ~RadiiCapped(ii[t] + 1)
    /\ ii' = [ii EXCEPT ![t] = ii[t] + 1]
    /\ tloc' = [tloc EXCEPT ![t] = RadiiEval(tloc[t], rout, lane[t], batch)]
    /\ rout' = RadiiUpdate(rout, lane[t], tloc'[t].dr)
    /\ IF RadiiContinue(tloc'[t].dr)
       THEN UNCHANGED <<tpc, finished, npass>>
       ELSE /\ tpc' = [tpc EXCEPT ![t] = "for"]
            /\ finished' = finished \cup {lane[t]}
            /\ npass' = [npass EXCEPT ![lane[t]] = ii'[t]]
    /\ UNCHANGED <<team, sched, lane, capped>>
    /\ UNCHANGED <<radiusVars, callerVars, potentialVars, saddleVars>>

\* every thread has left the loop: Radii returns rout
RadiiReturn ==
    /\ hpc \in {"seq", "par"}
    /\ \A t \in Threads : tpc[t] = "end"
    /\ IF hpc = "seq"
       THEN hpc' = "between" /\ rseq' = rout /\ seqn' = npass
       ELSE hpc' = "end" /\ UNCHANGED <<rseq, seqn>>
    /\ UNCHANGED <<batch, ref, refn>>
    /\ UNCHANGED <<radiusVars, radiiVars, potentialVars, saddleVars>>

RadiiNext ==
    \/ RefCall
    \/ RadiusNext
    \/ RefReturn
    \/ RadiiCallSequential
    \/ RadiiCallParallel
    \/ \E t \in Threads : RadiiFor(t) \/ RadiiCap(t) \/ RadiiStep(t)
    \/ RadiiReturn

SpecRadii == RadiiInit /\ [][RadiiNext]_vars

----------------------------------------------------------------------------
(* The two forms of the potential, called on the same point *)

Points ==
    { <<FromRat(1, 2), Zero(0), Zero(0)>>, <<FromRat(-1, 2), Zero(0), Zero(0)>>,
      <<Zero(0), FromRat(1, 4), Zero(0)>>, <<Zero(0), Zero(0), FromRat(1, 4)>>,
      <<FromRat(3, 10), FromRat(2, 5), Zero(0)>>,
      <<FromRat(1, 4), FromRat(1, 2), FromRat(3, 4)>>,
      <<Two, FromInt(-1), FromRat(1, 2)>>, <<FromRat(3, 2), Zero(0), One>> }
Omegas == { One, Two, FromRat(1, 2), Three }

PotentialInit ==
    /\ \E p \in Points, m \in MassRatios, w \in Omegas :
          pin = [x |-> p[1], y |-> p[2], z |-> p[3], q |-> m[1], omega |-> w]
    /\ pget = <<>>
    /\ ppot = <<>>
    /\ RadiusIdle
    /\ CallerIdle
    /\ RadiiIdle
    /\ SaddleIdle

\* Get_potential(x, y, z, q, omega)
CallGet_potential ==
    /\ pget = <<>>
    /\ pget' = Get_potential(pin.x, pin.y, pin.z, pin.q, pin.omega)
    /\ UNCHANGED <<pin, ppot>>
    /\ UNCHANGED <<radiusVars, callerVars, radiiVars, saddleVars>>

\* Potential(x, y, z, q, qp1by2om2) with the coefficient its docstring defines
CallPotential ==
    /\ ppot = <<>>
    /\ ppot' = Potential(pin.x, pin.y, pin.z, pin.q,
                         Documented_qp1by2om2(pin.q, pin.omega))
    /\ UNCHANGED <<pin, pget>>
    /\ UNCHANGED <<radiusVars, callerVars, radiiVars, saddleVars>>

PotentialNext == CallGet_potential \/ CallPotential
SpecPotential == PotentialInit /\ [][PotentialNext]_vars

----------------------------------------------------------------------------
(* Saddle as a state machine: one action per pass of the do-while *)

\* the pass counter of the model stops counting here
MaxCount == 60

\* starting points off the two centres x = 0 and x = 1, where the potential
\* is singular
SaddleStarts ==
    { FromRat(1, 2), FromRat(1, 4), FromRat(3, 4), FromRat(1, 8), FromInt(4),
      FromInt(8), FromRat(-1, 2), FromInt(-1), FromInt(-2) }
\* (q, qp1by2om2): two rotating binaries, a non-rotating one (omega = 0) and
\* a single star at rest
SaddleMassRatios ==
    { <<FromInt(56), FromRat(57, 2)>>, <<One, One>>, <<FromInt(8), Zero(0)>>,
      <<Zero(0), Zero(0)>> }

SaddleInit ==
    /\ \E x0 \in SaddleStarts, m \in SaddleMassRatios :
          sarg = [x |-> x0, q |-> m[1], qp1by2om2 |-> m[2]]
    /\ sx = sarg.x
    /\ sloc = SaddleScratch
    /\ spc = "loop"
    /\ scount = 0
    /\ RadiusIdle
    /\ CallerIdle
    /\ RadiiIdle
    /\ PotentialIdle

\* a pass: the derivatives at x, the Newton step, the test of |dx/x|
SaddlePass ==
    /\ spc = "loop"
    /\ sloc' = SaddleEval(sloc, sx, sarg)
    /\ sx' = SaddleUpdate(sx, sloc'.dx)
    /\ scount' = IF scount < MaxCount THEN scount + 1 ELSE scount
    /\ spc' = IF SaddleContinue(sloc'.dx, sx', scount') THEN "loop" ELSE "done"
    /\ UNCHANGED sarg
    /\ UNCHANGED <<radiusVars, callerVars, radiiVars, potentialVars>>

SaddleNext == SaddlePass
SpecSaddle == SaddleInit /\ [][SaddleNext]_vars

----------------------------------------------------------------------------
(* Properties *)

\* C1: Radius terminates: every pass counts i up and the loop is left as
\* soon as i passes nmax, so there are at most nmax + 1 passes; it evaluates
\* the potential at most nmax = 50 times, and once the counter passes nmax
\* it has stopped with the sentinel -99.99 after exactly nmax evaluations,
\* without a 51st.
Radius_terminates_within_nmax ==
    /\ [](evals <= nmax)
    /\ [](i > nmax => pc = "done" /\ return_val = Sentinel /\ evals = nmax)
    /\ [](pc = "loop" => i <= nmax)
    /\ [][i' = i + 1 /\ evals' \in {evals, evals + 1}]_vars

\* a solve that ran into the cap: 50 evaluations, none with |dr| <= 1e-5
Radius_cap_reached ==
    /\ pc = "done"
    /\ i = nmax + 1
    /\ evals = nmax
    /\ small = 0
    /\ return_val = Sentinel

Radii_equals_Radius ==
    /\ hpc \in {"between", "end"} => rout = ref /\ npass = refn
    /\ \A t \in Threads : tpc[t] = "do" /\ ii[t] = 0 => rout[lane[t]] = batch.r

\* a batch of several lanes solved by more than one thread, with a lane that
\* converged to a radius other than r
Radii_batch_solved ==
    /\ hpc = "end"
    /\ rout = ref
    /\ \E j, k \in Lanes :
          /\ sched[j] # sched[k]
          /\ IsFin(rout[j])
          /\ FGt(rout[j], Zero(0))
          /\ rout[j] # batch.r

\* C4: a lane that runs into the cap stores the sentinel in its own slot
\* only; every finished lane holds what the solve of its direction alone
\* gives, whatever the other lanes do; and the batch completes: each step
\* takes up a lane or counts a pass of one, no lane makes more than
\* nmax + 1 passes, and a thread leaves the loop only with all its lanes
\* done, a capped one among them or not.
Radii_failure_isolated ==
    /\ [](\A j \in finished : rout[j] = ref[j])
    /\ [](\A j \in Lanes : j \in capped <=> (j \in finished /\ rout[j] = Sentinel))
    /\ [](\A t \in Threads : ii[t] <= nmax + 1)
    /\ [](hpc # "ref" => \A t \in Threads : tpc[t] = "end" => Pending(t) = {})
    /\ [][(hpc \in {"seq", "par"}) /\ hpc' = hpc =>
            \E t \in Threads :
                (lane'[t] > lane[t]) \/ (ii'[t] = ii[t] + 1) \/
                (tpc[t] = "for" /\ tpc'[t] = "end")]_vars

\* a batch returned with a capped lane, after which the same thread solved
\* another lane that converged
Radii_capped_lane_alone ==
    /\ hpc = "end"
    /\ \E c \in capped, j \in Lanes \ capped :
          /\ rout[c] = Sentinel
          /\ c < j
          /\ sched[c] = sched[j]
          /\ IsFin(rout[j])
          /\ FLe(Zero(0), rout[j])

\* C5: in the parallel region each step is one thread's: it leaves the other
\* threads' private variables and every slot of rout but the thread's own
\* lane untouched, and a lane starts with its counter at 0; the array
\* returned is the one the build without OpenMP returns.
Radii_parallel_safe ==
    /\ [](hpc = "end" => rout = rseq /\ npass = seqn)
    /\ [][hpc = "par" /\ hpc' = "par" =>
            \E t \in Threads :
                /\ \A u \in Threads \ {t} :
                      /\ lane'[u] = lane[u]
                      /\ ii'[u] = ii[u]
                      /\ tloc'[u] = tloc[u]
                      /\ tpc'[u] = tpc[u]
                /\ \A j \in Lanes \ {lane'[t]} : rout'[j] = rout[j]
                /\ (tpc[t] = "for" /\ tpc'[t] = "do" => ii'[t] = 0)]_vars

\* a parallel run of two lanes on two threads, one of them after a capped or
\* longer lane, that returned the sequential array
Radii_parallel_returned ==
    /\ hpc = "end"
    /\ rout = rseq
    /\ \E j, k \in Lanes : sched[j] # sched[k] /\ npass[j] # npass[k]

\* C6: Get_potential(x, y, z, q, omega) returns the tuple that Potential
\* returns for the coefficient (q+1)/(2*omega^2).
Get_potential_matches_documented ==
    pget # <<>> /\ ppot # <<>> => pget = ppot

\* the instance of the saddle search the documentation gives
SaddleExample ==
    [x |-> FromRat(1, 2), q |-> FromInt(56), qp1by2om2 |-> FromRat(57, 2)]

\* C7, as claimed: at the point Saddle returns, |dpsidx| <= 1e-5.
Saddle_returns_stationary_point ==
    spc = "done" => FLe(FAbs(SaddleDerivative(sx, sarg)), Tolerance)

\* C7, as the code has it: at the point Saddle returns, the last Newton step
\* dx did not exceed 1e-5 of x in size; for q = 56, qp1by2om2 = 28.5,
\* x0 = 0.5 the derivative there is within 1e-5 of zero as well.
Saddle_exit_step_small ==
    spc = "done" =>
        /\ ~FGt(FAbs(FDiv(sloc.dx, sx)), Tolerance)
        /\ sarg = SaddleExample =>
              FLe(FAbs(SaddleDerivative(sx, sarg)), Tolerance)

\* the documented instance, returned
Saddle_example_returned ==
    /\ spc = "done"
    /\ sarg = SaddleExample
    /\ IsFin(sx)
    /\ scount > 1

Radius_iterate_stays_positive ==
    /\ pc = "loop" /\ ~IsZero(loc.dpsidr) => FGt(r, Zero(0))
    /\ ~zeroEval

\* C10: what Radius returns is the sentinel, or a radius >= 0 whose last
\* step had |dr| <= 1e-5; it is the sentinel exactly when no step had.
Radius_returns_sentinel_or_radius ==
    pc = "done" =>
        /\ \/ return_val = Sentinel
           \/ FLe(Zero(0), return_val) /\ FLe(FAbs(loc.dr), Tolerance)
        /\ return_val = Sentinel <=> small = 0

====
